---------------------------- MODULE Spec2Model ----------------------------
(* Model of the agent orchestration engine of main_mejorado.py: the engine  *)
(* start-up (TaskManager.initialize), one task (TaskManager.execute_task)   *)
(* and the turn loop (TaskManager._execute_turns), one action per outcome   *)
(* of one loop iteration.                                                   *)
EXTENDS Integers, Sequences, FiniteSets, TLC

VARIABLES
    pc,                \* where main() stands: "created", "idle", "running", "exited"
    current_provider,  \* ModelManager.current_provider
    gemini_model,      \* ModelManager.gemini_model
    ollama_model,      \* ModelManager.ollama_model
    api_keys,          \* ModelManager.api_keys
    tools,             \* ToolManager.tools, in insertion order: <<[name, body]>>
    task_id,           \* TaskContext.task_id
    turn_history,      \* TaskContext.turn_history
    steps_remaining,   \* the local steps_remaining of _execute_turns
    outcome,           \* how the last _execute_turns was left
    console_out,       \* what the last loop iteration printed
    last_step,         \* the last loop iteration: its query and its dispatch
    other,             \* a second caller of execute_task on the same TaskManager,
                       \* while it is not scheduled: its pc, steps_remaining,
                       \* outcome and last_step
    reply_raw,         \* the response a call of _parse_model_response is given
    parsed_call        \* what that call returned

vars == <<pc, current_provider, gemini_model, ollama_model, api_keys, tools,
          task_id, turn_history, steps_remaining, outcome, console_out,
          last_step, other, reply_raw, parsed_call>>

-----------------------------------------------------------------------------
(* Config                                                                   *)

MAX_STEPS_PER_TASK == 10
STEP_INCREMENT == 10

PREFERRED_GEMINI_MODELS == <<"models/gemini-pro", "models/gemini-1.5-flash">>

None == "None"

GEMINI == "gemini"
OLLAMA == "ollama"
UNKNOWN == "unknown"

-----------------------------------------------------------------------------
(* Bounds of the model                                                      *)

\* replies within one task that call anything but get_current_datetime and
\* finish_task: request_more_steps, a tool that raises, an unregistered
\* name, a dynamically loaded tool
MaxSpecialCalls == 1
\* how often the two callers of execute_task are switched
MaxSwitches == 1

\* what the user may type at the prompt
Prompts == {"crea un script"}
\* what uuid.uuid4() may return
TaskIds == {"uuid-a"}
\* what keys.json may hold under gemini_api_keys
KeyFiles == { <<>>, <<"TU_API_KEY_AQUI">>, <<"key-1", "key-2">>,
              <<"key-1", "key-2", "key-3">>,
              <<"key-1", "TU_API_KEY_AQUI", "key-3">> }
\* what genai.list_models() may offer for generateContent
GeminiCatalogs == { <<"models/custom", "models/gemini-pro">> }
\* what ollama.list() may report as installed
OllamaCatalogs == { <<>>, <<"llama3">> }
\* what datetime.datetime.now().isoformat() may return
DateTimes == {"2025-01-01T00:00:00"}


-----------------------------------------------------------------------------
(* Python helpers. Strings are written without accents.                     *)

RECURSIVE Join(_, _)
\* sep.join(seq)
Join(seq, sep) ==
    IF seq = <<>> THEN ""
    ELSE IF Len(seq) = 1 THEN seq[1]
    ELSE seq[1] \o sep \o Join(Tail(seq), sep)

\* str(list_of_strings): ['a', 'b']
ListStr(seq) == "[" \o Join([i \in 1..Len(seq) |-> "'" \o seq[i] \o "'"], ", ") \o "]"

\* a dict as a sequence of items in insertion order
Keys(d) == [i \in 1..Len(d) |-> d[i].name]
Has(d, name) == \E i \in 1..Len(d) : d[i].name = name
Get(d, name) == d[CHOOSE i \in 1..Len(d) : d[i].name = name].body
\* d[name] = body: an existing key keeps its position
DictSet(d, name, body) ==
    IF Has(d, name)
    THEN [i \in 1..Len(d) |-> IF d[i].name = name THEN [name |-> name, body |-> body] ELSE d[i]]
    ELSE Append(d, [name |-> name, body |-> body])
RECURSIVE DictUpdate(_, _)
\* d.update(items)
DictUpdate(d, items) ==
    IF items = <<>> THEN d
    ELSE DictUpdate(DictSet(d, items[1].name, items[1].body), Tail(items))

\* a or b on Optional[str]
Or(a, b) == IF a # None THEN a ELSE b

\* True when some element of seq equals x
InSeq(x, seq) == \E i \in 1..Len(seq) : seq[i] = x

-----------------------------------------------------------------------------
(* ToolManager                                                              *)

\* the bodies registered by _initialize_static_tools
StaticTools ==
    << [name |-> "write_file", body |-> "static"],
       [name |-> "read_file", body |-> "static"],
       [name |-> "run_shell_command", body |-> "static"],
       [name |-> "get_current_datetime", body |-> "static"],
       [name |-> "finish_task", body |-> "static"],
       [name |-> "request_more_steps", body |-> "static"],
       [name |-> "return_text", body |-> "static"] >>

\* the parameters a static tool requires, and those it has defaults for
Required(name) ==
    CASE name = "write_file" -> {"file_path", "content"}
      [] name = "read_file" -> {"file_path"}
      [] name = "run_shell_command" -> {"command"}
      [] name = "return_text" -> {"text"}
      [] OTHER -> {}
Defaulted(name) ==
    CASE name = "finish_task" -> {"message"}
      [] name = "request_more_steps" -> {"reason"}
      [] OTHER -> {}

\* tool_func(**parameters) binds: no key is missing and none is unexpected
Binds(name, parameters) ==
    /\ Required(name) \subseteq DOMAIN parameters
    /\ DOMAIN parameters \subseteq Required(name) \cup Defaulted(name)

\* the string a static tool returns; env holds what the clock and the
\* file system or shell answer, a parameter value is [t |-> type, v |-> text]
StaticResult(name, parameters, env) ==
    CASE name = "get_current_datetime" -> env.now
      [] name = "finish_task" ->
            "Tarea finalizada: " \o
            (IF "message" \in DOMAIN parameters THEN parameters.message.v
             ELSE "Tarea completada")
      [] name = "request_more_steps" ->
            "Solicitando mas pasos: " \o
            (IF "reason" \in DOMAIN parameters THEN parameters.reason.v
             ELSE "Necesito mas pasos")
      [] name = "return_text" -> parameters.text.v
      [] OTHER -> env.io

\* tool_func(**parameters): what the body returns or raises. A dynamic body
\* is "dynamic" (takes no parameters and returns a string) or
\* "dynamic_raises" (its body raises).
CallTool(body, name, parameters, env) ==
    CASE body = "static" ->
            IF Binds(name, parameters)
            THEN [raised |-> FALSE, value |-> StaticResult(name, parameters, env)]
            ELSE [raised |-> TRUE, value |-> "TypeError"]
      [] body = "dynamic" ->
            IF DOMAIN parameters = {}
            THEN [raised |-> FALSE, value |-> "salida de " \o name]
            ELSE [raised |-> TRUE, value |-> "TypeError"]
      [] OTHER -> [raised |-> TRUE, value |-> "RuntimeError"]

\* tool_name not in self.tools, outside the try: hashing a dict (a JSON
\* object given as tool_name) raises TypeError
LookupRaises(name_t) == name_t = "dict"

\* ToolManager.execute_tool, where the lookup does not raise
execute_tool(registry, tool_name, parameters, env) ==
    IF ~Has(registry, tool_name)
    THEN "Error: Herramienta '" \o tool_name \o "' no encontrada. Disponibles: "
            \o ListStr(Keys(registry))
    ELSE LET r == CallTool(Get(registry, tool_name), tool_name, parameters, env)
         IN  IF r.raised
             THEN "Error ejecutando " \o tool_name \o ": " \o r.value
             ELSE r.value

\* ToolManager._initialize_static_tools
InitializeStaticTools(registry) == DictUpdate(registry, StaticTools)

\* the modules agent_tools/*.py may hold besides __init__.py: loads is FALSE
\* when exec_module raises, exits is TRUE when what it raises is not an
\* Exception (SystemExit from a top-level sys.exit()), defs are the @tool
\* functions of the module.
\* tool_decorator.py is imported by main_mejorado.py, so it is always there.
ModDecorator == [file |-> "tool_decorator.py", loads |-> TRUE, exits |-> FALSE,
                 defs |-> <<>>]
ModBroken == [file |-> "roto.py", loads |-> FALSE, exits |-> FALSE,
              defs |-> <<[name |-> "never_loaded", body |-> "dynamic"]>>]
ModExtra == [file |-> "extra.py", loads |-> TRUE, exits |-> FALSE,
             defs |-> <<[name |-> "extra_tool", body |-> "dynamic"]>>]
ModShadow == [file |-> "shadow.py", loads |-> TRUE, exits |-> FALSE,
              defs |-> <<[name |-> "finish_task", body |-> "dynamic_raises"]>>]
ModExits == [file |-> "script.py", loads |-> FALSE, exits |-> TRUE,
             defs |-> <<[name |-> "script_tool", body |-> "dynamic"]>>]
ToolDirs == { <<ModDecorator>>, <<ModBroken, ModDecorator, ModExtra, ModShadow>>,
              <<ModDecorator, ModExits, ModExtra>> }

\* True when loading the directory ends the process: the handlers of lines
\* 609 and 613 catch Exception only
LoadExits(files) == \E i \in 1..Len(files) : files[i].exits

RECURSIVE LoadDynamicTools(_, _)
\* ToolManager._load_dynamic_tools over the files of the tools directory
LoadDynamicTools(registry, files) ==
    IF files = <<>> THEN registry
    ELSE IF files[1].exits THEN registry
    ELSE LoadDynamicTools(
            IF files[1].loads THEN DictUpdate(registry, files[1].defs) ELSE registry,
            Tail(files))

\* ToolManager.initialize: the registry it leaves (it always returns True)
ToolManagerInitialize(registry, files) ==
    LoadDynamicTools(InitializeStaticTools(registry), files)


-----------------------------------------------------------------------------
(* ModelManager                                                             *)

\* "TU_API_KEY" in key
IsPlaceholder(key) == key \in {"TU_API_KEY_AQUI", "TU_API_KEY"}

RECURSIVE FirstPreferred(_, _)
\* the first entry of preferred that the catalog offers, or None
FirstPreferred(preferred, available) ==
    IF preferred = <<>> THEN None
    ELSE IF InSeq(preferred[1], available) THEN preferred[1]
    ELSE FirstPreferred(Tail(preferred), available)

\* mutant: the list of keys is not tested for being empty
Mutant_SetupGemini(google, keys, available) ==
    IF ~google
    THEN [ok |-> FALSE, api_keys |-> <<>>, gemini_model |-> None]
    ELSE IF keys # <<>> /\ IsPlaceholder(keys[1])
    THEN [ok |-> FALSE, api_keys |-> keys, gemini_model |-> None]
    ELSE LET preferred == FirstPreferred(PREFERRED_GEMINI_MODELS, available)
             model == IF preferred = None /\ available # <<>>
                      THEN available[1] ELSE preferred
         IN  [ok |-> model # None, api_keys |-> keys, gemini_model |-> model]

\* ModelManager._setup_gemini: google is GOOGLE_AI_AVAILABLE, keys what
\* _load_api_keys returns, available what genai.list_models() offers (a
\* failing list_models ends like an empty one: return False, keys loaded)
SetupGemini(google, keys, available) ==
    IF ~google
    THEN [ok |-> FALSE, api_keys |-> <<>>, gemini_model |-> None]
    ELSE IF keys = <<>> \/ IsPlaceholder(keys[1])
    THEN [ok |-> FALSE, api_keys |-> keys, gemini_model |-> None]
    ELSE LET preferred == FirstPreferred(PREFERRED_GEMINI_MODELS, available)
             model == IF preferred = None /\ available # <<>>
                      THEN available[1] ELSE preferred
         IN  [ok |-> model # None, api_keys |-> keys, gemini_model |-> model]

\* ModelManager._setup_ollama: installed is ollama.list()['models'], choice
\* the index the user picks in _select_ollama_model_interactive
SetupOllama(installed, choice) ==
    IF installed = <<>> THEN [ok |-> FALSE, ollama_model |-> None]
    ELSE IF Len(installed) = 1 THEN [ok |-> TRUE, ollama_model |-> installed[1]]
    ELSE [ok |-> TRUE, ollama_model |-> installed[choice]]

\* mutant: the local provider is tried first
Mutant_ModelManagerInitialize(google, keys, available, installed, choice) ==
    LET g == SetupGemini(google, keys, available)
        o == SetupOllama(installed, choice)
    IN  IF o.ok
        THEN [ok |-> TRUE, current_provider |-> OLLAMA, api_keys |-> g.api_keys,
              gemini_model |-> g.gemini_model, ollama_model |-> o.ollama_model]
        ELSE IF g.ok
        THEN [ok |-> TRUE, current_provider |-> GEMINI, api_keys |-> g.api_keys,
              gemini_model |-> g.gemini_model, ollama_model |-> None]
        ELSE [ok |-> FALSE, current_provider |-> UNKNOWN, api_keys |-> g.api_keys,
              gemini_model |-> g.gemini_model, ollama_model |-> o.ollama_model]

\* ModelManager.initialize: the provider state it leaves, ok its return value
ModelManagerInitialize(google, keys, available, installed, choice) ==
    LET g == SetupGemini(google, keys, available)
        o == SetupOllama(installed, choice)
    IN  IF g.ok
        THEN [ok |-> TRUE, current_provider |-> GEMINI, api_keys |-> g.api_keys,
              gemini_model |-> g.gemini_model, ollama_model |-> None]
        ELSE IF o.ok
        THEN [ok |-> TRUE, current_provider |-> OLLAMA, api_keys |-> g.api_keys,
              gemini_model |-> g.gemini_model, ollama_model |-> o.ollama_model]
        ELSE [ok |-> FALSE, current_provider |-> UNKNOWN, api_keys |-> g.api_keys,
              gemini_model |-> g.gemini_model, ollama_model |-> o.ollama_model]

\* the model names the local runtime can serve; a cloud model name is none
OllamaServes(model_name) ==
    \E c \in OllamaCatalogs : InSeq(model_name, c)

\* mutant: the cloud query function is handed out for the local provider too
Mutant_QueryFunction(provider) ==
    IF provider \in {GEMINI, OLLAMA} THEN GEMINI
    ELSE "ModelNotAvailableError"

\* ModelManager.get_query_function: the provider that will be queried
QueryFunction(provider) ==
    IF provider = GEMINI THEN GEMINI
    ELSE IF provider = OLLAMA THEN OLLAMA
    ELSE "ModelNotAvailableError"

\* the arguments _execute_turns passes to query_func
ModelName(gm, om) == Or(gm, om)
StepNum(steps) == MAX_STEPS_PER_TASK - steps + 1
TurnIndex(steps) == StepNum(steps) - 1

\* _query_gemini: self.api_keys[turn % len(self.api_keys)] (0-based)
CurrentKey(keys, turn) == keys[(turn % Len(keys)) + 1]


-----------------------------------------------------------------------------
(* Response interpreter. A reply text is a sequence of tokens; a response   *)
(* is [candidates |-> <<function calls>>, text |-> tokens].                 *)

\* the fence marks; the backquote is written as a quote
FENCE_OPEN == "'''json\n"
FENCE_CLOSE == "\n'''"
WS == " "
\* the strings that occur as JSON string literals in the replies
JsonStrings == {"tool_name", "parameters", "message", "bogus", "finish_task",
                "request_more_steps", "get_current_datetime", "return_text",
                "nonexistent_tool", "extra_tool", "hecho", "x"}
JsonNumbers == {"7"}
StrTok(str) == "\"" \o str \o "\""
IsStrTok(tok) == \E str \in JsonStrings : tok = StrTok(str)
StrOf(tok) == CHOOSE str \in JsonStrings : tok = StrTok(str)

\* JSON values: [t |-> "str" | "num", v |-> string], [t |-> "dict", v |-> function]
JStr(str) == [t |-> "str", v |-> str]
JDict(f) == [t |-> "dict", v |-> f]
EmptyDict == [k \in {} |-> JStr("")]
IsDict(val) == val.t = "dict"
\* d[key] = val on a Python dict
Put(f, key, val) == [k \in DOMAIN f \cup {key} |-> IF k = key THEN val ELSE f[k]]

RECURSIVE LStrip(_)
LStrip(toks) == IF toks # <<>> /\ toks[1] = WS THEN LStrip(Tail(toks)) ELSE toks
RECURSIVE RStrip(_)
RStrip(toks) ==
    IF toks # <<>> /\ toks[Len(toks)] = WS
    THEN RStrip(SubSeq(toks, 1, Len(toks) - 1)) ELSE toks
\* str.strip()
Strip(toks) == RStrip(LStrip(toks))

\* mutant: the match is greedy, up to the last closing fence
Mutant_FencedBody(toks) ==
    LET opens == {i \in 1..Len(toks) :
                    /\ toks[i] = FENCE_OPEN
                    /\ \E j \in (i+1)..Len(toks) : toks[j] = FENCE_CLOSE}
    IN  IF opens = {} THEN toks
        ELSE LET i == CHOOSE a \in opens : \A b \in opens : a <= b
                 j == CHOOSE a \in (i+1)..Len(toks) :
                        /\ toks[a] = FENCE_CLOSE
                        /\ \A b \in (a+1)..Len(toks) : toks[b] # FENCE_CLOSE
             IN  SubSeq(toks, i + 1, j - 1)

\* re.search of the fenced json block, non-greedy, DOTALL: group(1), or the
\* whole text without a match
FencedBody(toks) ==
    LET opens == {i \in 1..Len(toks) :
                    /\ toks[i] = FENCE_OPEN
                    /\ \E j \in (i+1)..Len(toks) : toks[j] = FENCE_CLOSE}
    IN  IF opens = {} THEN toks
        ELSE LET i == CHOOSE a \in opens : \A b \in opens : a <= b
                 j == CHOOSE a \in (i+1)..Len(toks) :
                        /\ toks[a] = FENCE_CLOSE
                        /\ \A b \in (i+1)..(a-1) : toks[b] # FENCE_CLOSE
             IN  SubSeq(toks, i + 1, j - 1)

Fail == [ok |-> FALSE, val |-> JStr(""), rest |-> <<>>]

RECURSIVE ParseValue(_)
RECURSIVE ParseMembers(_, _)
\* the members of an object after "{" or ",": key : value, then "," or "}"
ParseMembers(toks, acc) ==
    LET t1 == LStrip(toks)
    IN  IF t1 = <<>> \/ ~IsStrTok(t1[1]) THEN Fail
        ELSE LET t2 == LStrip(Tail(t1))
             IN  IF t2 = <<>> \/ t2[1] # ":" THEN Fail
                 ELSE LET r == ParseValue(Tail(t2))
                          t3 == LStrip(r.rest)
                          acc2 == Put(acc, StrOf(t1[1]), r.val)
                      IN  IF ~r.ok \/ t3 = <<>> THEN Fail
                          ELSE IF t3[1] = "}"
                          THEN [ok |-> TRUE, val |-> JDict(acc2), rest |-> Tail(t3)]
                          ELSE IF t3[1] = ","
                          THEN ParseMembers(Tail(t3), acc2)
                          ELSE Fail
\* one JSON value at the head of toks
ParseValue(toks) ==
    LET t1 == LStrip(toks)
    IN  IF t1 = <<>> THEN Fail
        ELSE IF IsStrTok(t1[1])
        THEN [ok |-> TRUE, val |-> JStr(StrOf(t1[1])), rest |-> Tail(t1)]
        ELSE IF t1[1] \in JsonNumbers
        THEN [ok |-> TRUE, val |-> [t |-> "num", v |-> t1[1]], rest |-> Tail(t1)]
        ELSE IF t1[1] = "{"
        THEN LET t2 == LStrip(Tail(t1))
             IN  IF t2 # <<>> /\ t2[1] = "}"
                 THEN [ok |-> TRUE, val |-> JDict(EmptyDict), rest |-> Tail(t2)]
                 ELSE ParseMembers(t2, EmptyDict)
        ELSE Fail

\* json.loads: ok is FALSE where it raises JSONDecodeError
JsonLoads(toks) ==
    LET r == ParseValue(toks)
    IN  IF r.ok /\ LStrip(r.rest) = <<>> THEN r ELSE Fail

\* str(value) of a JSON value; the only dict that stands as a tool name in
\* the replies is the empty one
PyStr(val) == IF IsDict(val) THEN "{}" ELSE val.v

\* name_t is the Python type of tool_name: "str", "num" or "dict"
NoCall == [found |-> FALSE, tool_name |-> "", name_t |-> "str", parameters |-> EmptyDict]

\* mutant: an object whose parameters entry is missing or is not a mapping
\* is no tool call
Mutant_ValidateParsed_NeedsMapping(parsed) ==
    IF ~parsed.ok THEN NoCall
    ELSE IF /\ IsDict(parsed.val)
            /\ "tool_name" \in DOMAIN parsed.val.v
            /\ "parameters" \in DOMAIN parsed.val.v
            /\ IsDict(parsed.val.v["parameters"])
    THEN [found |-> TRUE,
          tool_name |-> PyStr(parsed.val.v["tool_name"]),
          name_t |-> parsed.val.v["tool_name"].t,
          parameters |-> parsed.val.v["parameters"].v]
    ELSE NoCall

\* mutant: any JSON object counts as a tool call
Mutant_ValidateParsed(parsed) ==
    IF ~parsed.ok THEN NoCall
    ELSE IF IsDict(parsed.val)
    THEN [found |-> TRUE,
          tool_name |-> IF "tool_name" \in DOMAIN parsed.val.v
                        THEN PyStr(parsed.val.v["tool_name"]) ELSE "",
          name_t |-> "str",
          parameters |-> EmptyDict]
    ELSE NoCall

\* the validation of the parsed JSON: a dict with a tool_name, parameters
\* replaced by {} when missing or not a dict
ValidateParsed(parsed) ==
    IF ~parsed.ok THEN NoCall
    ELSE IF IsDict(parsed.val) /\ "tool_name" \in DOMAIN parsed.val.v
    THEN [found |-> TRUE,
          tool_name |-> PyStr(parsed.val.v["tool_name"]),
          name_t |-> parsed.val.v["tool_name"].t,
          parameters |->
             IF "parameters" \notin DOMAIN parsed.val.v
                \/ ~IsDict(parsed.val.v["parameters"])
             THEN EmptyDict
             ELSE parsed.val.v["parameters"].v]
    ELSE NoCall

\* the text path, from the stripped JSON string on
ParseJsonString(json_string) ==
    IF json_string = <<>> \/ json_string[1] # "{" THEN NoCall
    ELSE ValidateParsed(JsonLoads(json_string))

\* TaskManager._parse_model_response: the tool call, or NoCall for None
ParseModelResponse(response) ==
    IF response.candidates # <<>>
    THEN [found |-> TRUE, tool_name |-> response.candidates[1].name,
          name_t |-> "str", parameters |-> response.candidates[1].args]
    ELSE ParseJsonString(Strip(FencedBody(response.text)))

-----------------------------------------------------------------------------
(* What the providers may answer                                            *)

Native(name, args) == [candidates |-> <<[name |-> name, args |-> args]>>, text |-> <<>>]
TextReply(toks) == [candidates |-> <<>>, text |-> toks]
\* {"tool_name": name, "parameters": {}} as tokens
JsonCall(name) ==
    <<"{", StrTok("tool_name"), ":", WS, StrTok(name), ",", WS,
      StrTok("parameters"), ":", WS, "{", "}", "}">>
Fenced(toks) == <<"Claro:", WS, FENCE_OPEN>> \o toks \o <<FENCE_CLOSE, WS>>

\* {"tool_name": {}} as tokens: a call whose tool_name is a JSON object
BadNameCall == <<"{", StrTok("tool_name"), ":", WS, "{", "}", "}">>

OtherTools == {"return_text", "nonexistent_tool", "extra_tool"}
SpecialTools == {"request_more_steps"} \cup OtherTools
CalledTools == {"finish_task", "get_current_datetime"} \cup SpecialTools
NativeArgs == { EmptyDict, [message |-> JStr("hecho")], [bogus |-> JStr("x")] }

\* replies that are not tool calls: prose, broken JSON, JSON without tool_name
FreeTexts ==
    { <<"Hola,", WS, "aqui", WS, "esta", WS, "tu", WS, "respuesta.">>,
      <<"{", StrTok("tool_name"), ":">>,
      <<"{", StrTok("message"), ":", StrTok("hecho"), "}">> }

\* generate_content under function calling, and what it may hand back as text
GeminiResponses ==
    {Native(n, EmptyDict) : n \in CalledTools}
        \cup {Native("finish_task", a) : a \in NativeArgs}
        \cup {TextReply(t) : t \in FreeTexts}
\* ollama.chat(format='json'): always text, candidates = []
OllamaResponses ==
    {TextReply(JsonCall(n)) : n \in CalledTools}
        \cup {TextReply(Fenced(JsonCall(n))) : n \in {"finish_task", "get_current_datetime"}}
        \cup {TextReply(t) : t \in FreeTexts}
        \cup {TextReply(BadNameCall)}

ToolEnvs == [now : DateTimes, io : {"STDOUT:"}]

\* _parse_model_response on every reply of the alphabet, computed once
Interpreted == [r \in GeminiResponses \cup OllamaResponses |-> ParseModelResponse(r)]

-----------------------------------------------------------------------------
(* TaskContext and the turn history                                         *)

\* TaskManager._create_system_prompt, formatted in execute_task
SystemPrompt(available_tools, relevant_memories) ==
    "HERRAMIENTAS DISPONIBLES: " \o ListStr(available_tools)
        \o " MEMORIA RELEVANTE: " \o relevant_memories

\* mutant: the system prompt and the task are two turns of the user
Mutant_FirstTurn(registry, user_prompt) ==
    << [role |-> "user",
        parts |-> <<SystemPrompt(Keys(registry), "No hay recuerdos guardados")>>],
       [role |-> "user", parts |-> <<"Tarea: " \o user_prompt>>] >>

\* the history execute_task starts a task with
FirstTurn(registry, user_prompt) ==
    << [role |-> "user",
        parts |-> <<SystemPrompt(Keys(registry), "No hay recuerdos guardados"),
                    "Tarea: " \o user_prompt>>] >>

\* mutant: the result is appended before the note naming the tool
Mutant_UpdateHistoryWithToolResult(history, tool_name, result) ==
    history \o << [role |-> "user", parts |-> <<"Resultado: " \o result>>],
                  [role |-> "model", parts |-> <<"Usando herramienta: " \o tool_name>>] >>

\* TaskManager._update_history_with_tool_result
UpdateHistoryWithToolResult(history, tool_name, result) ==
    history \o << [role |-> "model", parts |-> <<"Usando herramienta: " \o tool_name>>],
                  [role |-> "user", parts |-> <<"Resultado: " \o result>>] >>

\* how many entries of the history announce a tool of names
Uses(history, names) ==
    Cardinality({i \in 1..Len(history) :
        /\ history[i].role = "model"
        /\ \E n \in names : history[i].parts = <<"Usando herramienta: " \o n>>})


-----------------------------------------------------------------------------
(* The engine                                                               *)

\* no loop iteration yet in this task
NoStep ==
    [n |-> 0, provider |-> None, model_name |-> None, turn |-> 0, key |-> None,
     result |-> None, dispatched |-> FALSE, tool_name |-> None,
     tool_result |-> None, appended |-> <<>>]

\* a caller that is not inside execute_task
NoCaller ==
    [pc |-> "idle", steps_remaining |-> 0, outcome |-> None, last_step |-> NoStep,
     switches |-> 0]

\* TaskManager.__init__, ModelManager.__init__, ToolManager.__init__
Init ==
    /\ pc = "created"
    /\ current_provider = UNKNOWN
    /\ gemini_model = None
    /\ ollama_model = None
    /\ api_keys = <<>>
    /\ tools = <<>>
    /\ task_id = None
    /\ turn_history = <<>>
    /\ steps_remaining = 0
    /\ outcome = None
    /\ console_out = <<>>
    /\ last_step = NoStep
    /\ other = NoCaller
    /\ reply_raw = TextReply(<<>>)
    /\ parsed_call = NoCall

\* TaskManager.initialize as main() calls it: the tools are initialized, then
\* the models, then the tools a second time; a failure ends in sys.exit(1).
\* A module of the tools directory that raises SystemExit ends the process
\* inside the first ToolManager.initialize, before anything else is printed.
Initialize ==
    /\ pc = "created"
    /\ \E google \in BOOLEAN, keys \in KeyFiles, available \in GeminiCatalogs,
          installed \in OllamaCatalogs, files \in ToolDirs :
       \E choice \in (IF Len(installed) > 1 THEN 1..Len(installed) ELSE {1}) :
         LET once == ToolManagerInitialize(tools, files)
             mm == ModelManagerInitialize(google, keys, available, installed, choice)
         IN  IF LoadExits(files)
             THEN /\ tools' = once
                  /\ pc' = "exited"
                  /\ console_out' = <<>>
                  /\ UNCHANGED <<current_provider, api_keys, gemini_model, ollama_model>>
             ELSE /\ current_provider' = mm.current_provider
                  /\ api_keys' = mm.api_keys
                  /\ gemini_model' = mm.gemini_model
                  /\ ollama_model' = mm.ollama_model
                  /\ tools' = IF mm.ok THEN ToolManagerInitialize(once, files) ELSE once
                  /\ pc' = IF mm.ok THEN "idle" ELSE "exited"
                  /\ console_out' = IF mm.ok THEN <<"Listo">>
                                    ELSE <<"Error: No se pudo inicializar el sistema">>
    /\ UNCHANGED <<other, reply_raw, parsed_call, task_id, turn_history, steps_remaining, outcome, last_step>>

\* main(): the user types exit or quit
Quit ==
    /\ pc = "idle"
    /\ pc' = "exited"
    /\ console_out' = <<"Hasta luego!">>
    /\ UNCHANGED <<other, reply_raw, parsed_call, current_provider, gemini_model, ollama_model, api_keys, tools,
                   task_id, turn_history, steps_remaining, outcome, last_step>>

\* mutant: reset forgets to clear the history
Mutant_TaskReset == [task_id |-> None, turn_history |-> turn_history]

\* TaskContext.reset: the task_id and the turn_history it leaves
TaskReset == [task_id |-> None, turn_history |-> <<>>]

\* mutant: a new task goes back to the cloud provider when one is configured
Mutant_ExecuteTask ==
    /\ pc = "idle"
    /\ \E user_prompt \in Prompts, id \in TaskIds :
        /\ task_id' = id
        /\ turn_history' = FirstTurn(tools, user_prompt)
    /\ steps_remaining' = MAX_STEPS_PER_TASK
    /\ pc' = "running"
    /\ outcome' = "Running"
    /\ console_out' = <<>>
    /\ last_step' = NoStep
    /\ current_provider' = IF gemini_model # None THEN GEMINI ELSE current_provider
    /\ UNCHANGED <<other, reply_raw, parsed_call, gemini_model, ollama_model, api_keys, tools>>

\* mutant: steps_remaining lives on from one task to the next
Mutant_ExecuteTask_KeepsCounter ==
    /\ pc = "idle"
    /\ \E user_prompt \in Prompts, id \in TaskIds :
        /\ task_id' = id
        /\ turn_history' = FirstTurn(tools, user_prompt)
    /\ steps_remaining' = IF steps_remaining > 0 THEN steps_remaining
                          ELSE MAX_STEPS_PER_TASK
    /\ pc' = "running"
    /\ outcome' = "Running"
    /\ console_out' = <<>>
    /\ last_step' = NoStep
    /\ UNCHANGED <<other, reply_raw, parsed_call, current_provider, gemini_model,
                   ollama_model, api_keys, tools>>

\* TaskManager.execute_task up to the first iteration of _execute_turns
ExecuteTask ==
    /\ pc = "idle"
    /\ \E user_prompt \in Prompts, id \in TaskIds :
        /\ task_id' = id
        /\ turn_history' = FirstTurn(tools, user_prompt)
    /\ steps_remaining' = MAX_STEPS_PER_TASK
    /\ pc' = "running"
    /\ outcome' = "Running"
    /\ console_out' = <<>>
    /\ last_step' = NoStep
    /\ UNCHANGED <<other, reply_raw, parsed_call, current_provider, gemini_model, ollama_model, api_keys, tools>>

\* the query of this iteration: what query_func is called with
ThisQuery ==
    LET provider == QueryFunction(current_provider)
        turn == TurnIndex(steps_remaining)
    IN  [n |-> last_step.n + 1,
         provider |-> provider,
         model_name |-> ModelName(gemini_model, ollama_model),
         turn |-> turn,
         key |-> IF provider = GEMINI /\ api_keys # <<>>
                 THEN CurrentKey(api_keys, turn) ELSE None]

\* the backend can answer this query: the cloud one with a real key, the
\* local one when it serves the model asked for
Answerable(q) ==
    \/ q.provider = GEMINI /\ q.key # None /\ ~IsPlaceholder(q.key)
    \/ q.provider = OLLAMA /\ OllamaServes(q.model_name)

\* what the provider may answer to a query it can answer
Answers(q) == IF q.provider = GEMINI THEN GeminiResponses ELSE OllamaResponses

\* a step record of this iteration
StepRecord(q, result, dispatched, tool_name, tool_result, appended) ==
    [n |-> q.n, provider |-> q.provider, model_name |-> q.model_name,
     turn |-> q.turn, key |-> q.key, result |-> result,
     dispatched |-> dispatched, tool_name |-> tool_name,
     tool_result |-> tool_result, appended |-> appended]

PasoPanel(steps) == "Paso " \o ToString(StepNum(steps))
LimitPanel == "Se alcanzo el limite de pasos"

\* mutant: the quota handler leaves the provider as it is
Mutant_FallbackProvider == GEMINI

\* except GeminiQuotaExceededError: the provider the loop switches to
FallbackProvider == OLLAMA

\* _query_gemini raises GeminiQuotaExceededError: switch and continue
StepQuotaExceeded ==
    /\ pc = "running"
    /\ \E q \in {ThisQuery} :
           /\ q.provider = GEMINI
           /\ Answerable(q)
           /\ last_step' = StepRecord(q, "quota", FALSE, None, None, <<>>)
    /\ current_provider' = FallbackProvider
    /\ console_out' = <<PasoPanel(steps_remaining)>>
    /\ UNCHANGED <<other, reply_raw, parsed_call, pc, gemini_model, ollama_model, api_keys, tools, task_id,
                   turn_history, steps_remaining, outcome>>

\* mutant: any provider error is handled like the quota error (switch to the
\* local provider and continue)
Mutant_StepProviderError ==
    /\ pc = "running"
    /\ \E q \in {ThisQuery} :
           last_step' = StepRecord(q, "error", FALSE, None, None, <<>>)
    /\ current_provider' = OLLAMA
    /\ console_out' = <<PasoPanel(steps_remaining), "Error en turno">>
    /\ UNCHANGED <<other, reply_raw, parsed_call, pc, gemini_model, ollama_model, api_keys, tools, task_id,
                   turn_history, steps_remaining, outcome>>

\* the query raises anything else: except Exception, break, and the code
\* after the loop
StepProviderError ==
    /\ pc = "running"
    /\ \E q \in {ThisQuery} :
           last_step' = StepRecord(q, "error", FALSE, None, None, <<>>)
    /\ console_out' = <<PasoPanel(steps_remaining), "Error en turno", LimitPanel>>
    /\ task_id' = TaskReset.task_id
    /\ turn_history' = TaskReset.turn_history
    /\ outcome' = "Aborted"
    /\ pc' = "idle"
    /\ UNCHANGED <<other, reply_raw, parsed_call, current_provider, gemini_model, ollama_model, api_keys, tools,
                   steps_remaining>>

\* mutant: a free-text reply is shown and the loop goes on to the decrement
Mutant_StepFreeText ==
    /\ pc = "running"
    /\ steps_remaining > 1
    /\ \E q \in {ThisQuery} :
           /\ Answerable(q)
           /\ \E response \in Answers(q) :
                /\ ~Interpreted[response].found
                /\ last_step' = StepRecord(q, "ok", FALSE, None, None, <<>>)
                /\ console_out' = <<PasoPanel(steps_remaining), Join(response.text, "")>>
    /\ steps_remaining' = steps_remaining - 1
    /\ UNCHANGED <<other, reply_raw, parsed_call, pc, current_provider, gemini_model, ollama_model, api_keys,
                   tools, task_id, turn_history, outcome>>

\* the reply is not a tool call: print it, reset, return
StepFreeText ==
    /\ pc = "running"
    /\ \E q \in {ThisQuery} :
           /\ Answerable(q)
           /\ \E response \in Answers(q) :
                /\ ~Interpreted[response].found
                /\ last_step' = StepRecord(q, "ok", FALSE, None, None, <<>>)
                /\ console_out' = <<PasoPanel(steps_remaining), Join(response.text, "")>>
    /\ task_id' = TaskReset.task_id
    /\ turn_history' = TaskReset.turn_history
    /\ outcome' = "Finished"
    /\ pc' = "idle"
    /\ UNCHANGED <<other, reply_raw, parsed_call, current_provider, gemini_model, ollama_model, api_keys, tools,
                   steps_remaining>>

\* mutant: the finish check is missing
Mutant_IsFinish(tool_name) == FALSE

\* if tool_call['tool_name'] == 'finish_task'
IsFinish(tool_name) == tool_name = "finish_task"
\* elif tool_call['tool_name'] == 'request_more_steps'
IsMoreSteps(tool_name) == tool_name = "request_more_steps"

\* mutant: request_more_steps adds nothing
Mutant_StepsAfterTool_NoIncrement(tool_name, steps) == steps - 1
\* mutant: the decrement at the end of the iteration is missing
Mutant_StepsAfterTool_NoDecrement(tool_name, steps) ==
    IF tool_name = "request_more_steps" THEN steps + STEP_INCREMENT ELSE steps

\* steps_remaining at the end of an iteration that dispatched tool_name and
\* did not return
StepsAfterTool(tool_name, steps) ==
    (IF IsMoreSteps(tool_name) THEN steps + STEP_INCREMENT ELSE steps) - 1

\* mutant: the loop never tests the counter (while True)
Mutant_LoopContinues_Always(steps) == TRUE

\* mutant: the loop test is off by one
Mutant_LoopContinues(steps) == steps >= 0

\* while steps_remaining > 0
LoopContinues(steps) == steps > 0

\* the bounds on what the model replies within one task
WithinBounds(tool_name) ==
    tool_name \in SpecialTools => Uses(turn_history, SpecialTools) < MaxSpecialCalls

\* mutant: the dispatch registers the name it was asked for
Mutant_AfterDispatch_Registers(call, result, q) ==
    /\ last_step' = StepRecord(q, "ok", TRUE, call.tool_name, result,
            SubSeq(UpdateHistoryWithToolResult(<<>>, call.tool_name, result), 1, 2))
    /\ IF IsFinish(call.tool_name)
       THEN /\ console_out' = <<PasoPanel(steps_remaining), result,
                                "Tarea completada exitosamente">>
            /\ task_id' = TaskReset.task_id
            /\ turn_history' = TaskReset.turn_history
            /\ steps_remaining' = steps_remaining
            /\ outcome' = "Finished"
            /\ pc' = "idle"
       ELSE IF LoopContinues(StepsAfterTool(call.tool_name, steps_remaining))
       THEN /\ console_out' =
                 IF IsMoreSteps(call.tool_name)
                 THEN <<PasoPanel(steps_remaining), result,
                        "Pasos aumentados a "
                            \o ToString(steps_remaining + STEP_INCREMENT)>>
                 ELSE <<PasoPanel(steps_remaining), result>>
            /\ task_id' = task_id
            /\ turn_history' =
                 UpdateHistoryWithToolResult(turn_history, call.tool_name, result)
            /\ steps_remaining' = StepsAfterTool(call.tool_name, steps_remaining)
            /\ outcome' = outcome
            /\ pc' = pc
       ELSE /\ console_out' = <<PasoPanel(steps_remaining), result, LimitPanel>>
            /\ task_id' = TaskReset.task_id
            /\ turn_history' = TaskReset.turn_history
            /\ steps_remaining' = StepsAfterTool(call.tool_name, steps_remaining)
            /\ outcome' = "StepLimitReached"
            /\ pc' = "idle"
    /\ tools' = DictSet(tools, call.tool_name, "dynamic")
    /\ UNCHANGED <<other, reply_raw, parsed_call, current_provider, gemini_model, ollama_model, api_keys>>

\* the rest of an iteration whose reply is the tool call `call` with
\* execute_tool's result: the result panel, _update_history_with_tool_result,
\* then finish / more steps / decrement and the loop test
AfterDispatch(call, result, q) ==
    /\ last_step' = StepRecord(q, "ok", TRUE, call.tool_name, result,
            SubSeq(UpdateHistoryWithToolResult(<<>>, call.tool_name, result), 1, 2))
    /\ IF IsFinish(call.tool_name)
       THEN /\ console_out' = <<PasoPanel(steps_remaining), result,
                                "Tarea completada exitosamente">>
            /\ task_id' = TaskReset.task_id
            /\ turn_history' = TaskReset.turn_history
            /\ steps_remaining' = steps_remaining
            /\ outcome' = "Finished"
            /\ pc' = "idle"
       ELSE IF LoopContinues(StepsAfterTool(call.tool_name, steps_remaining))
       THEN /\ console_out' =
                 IF IsMoreSteps(call.tool_name)
                 THEN <<PasoPanel(steps_remaining), result,
                        "Pasos aumentados a "
                            \o ToString(steps_remaining + STEP_INCREMENT)>>
                 ELSE <<PasoPanel(steps_remaining), result>>
            /\ task_id' = task_id
            /\ turn_history' =
                 UpdateHistoryWithToolResult(turn_history, call.tool_name, result)
            /\ steps_remaining' = StepsAfterTool(call.tool_name, steps_remaining)
            /\ outcome' = outcome
            /\ pc' = pc
       ELSE /\ console_out' = <<PasoPanel(steps_remaining), result, LimitPanel>>
            /\ task_id' = TaskReset.task_id
            /\ turn_history' = TaskReset.turn_history
            /\ steps_remaining' = StepsAfterTool(call.tool_name, steps_remaining)
            /\ outcome' = "StepLimitReached"
            /\ pc' = "idle"
    /\ UNCHANGED <<other, reply_raw, parsed_call, current_provider, gemini_model, ollama_model, api_keys, tools>>

\* an iteration whose reply is a tool call: execute_tool, then the rest
DispatchStep(call, env, q) ==
    /\ call.found
    /\ ~LookupRaises(call.name_t)
    /\ WithinBounds(call.tool_name)
    /\ \E result \in {execute_tool(tools, call.tool_name, call.parameters, env)} :
          AfterDispatch(call, result, q)

\* the reply calls finish_task
StepFinish ==
    /\ pc = "running"
    /\ \E q \in {ThisQuery} :
         /\ Answerable(q)
         /\ \E response \in Answers(q), env \in ToolEnvs :
              \E call \in {Interpreted[response]} :
                /\ IsFinish(call.tool_name)
                /\ DispatchStep(call, env, q)

\* the reply calls request_more_steps
StepMoreSteps ==
    /\ pc = "running"
    /\ \E q \in {ThisQuery} :
         /\ Answerable(q)
         /\ \E response \in Answers(q), env \in ToolEnvs :
              \E call \in {Interpreted[response]} :
                /\ IsMoreSteps(call.tool_name)
                /\ DispatchStep(call, env, q)

\* the reply calls any other tool, registered or not
StepTool ==
    /\ pc = "running"
    /\ \E q \in {ThisQuery} :
         /\ Answerable(q)
         /\ \E response \in Answers(q), env \in ToolEnvs :
              \E call \in {Interpreted[response]} :
                /\ ~IsFinish(call.tool_name)
                /\ ~IsMoreSteps(call.tool_name)
                /\ DispatchStep(call, env, q)

\* the reply is a tool call and execute_tool raises at the lookup: except
\* Exception, break, and the code after the loop
StepDispatchRaises ==
    /\ pc = "running"
    /\ \E q \in {ThisQuery} :
         /\ Answerable(q)
         /\ \E response \in Answers(q) :
              \E call \in {Interpreted[response]} :
                /\ call.found
                /\ LookupRaises(call.name_t)
                /\ last_step' = StepRecord(q, "raised", FALSE, call.tool_name,
                                           None, <<>>)
    /\ console_out' = <<PasoPanel(steps_remaining), "Error en turno", LimitPanel>>
    /\ task_id' = TaskReset.task_id
    /\ turn_history' = TaskReset.turn_history
    /\ outcome' = "Aborted"
    /\ pc' = "idle"
    /\ UNCHANGED <<other, reply_raw, parsed_call, current_provider, gemini_model, ollama_model, api_keys, tools,
                   steps_remaining>>

\* Two threads call execute_task on one TaskManager: nothing in execute_task
\* or _execute_turns takes a lock or tests for a running task, so the
\* interpreter may switch from one caller to the other between two loop
\* iterations. The locals of the caller that is switched out are kept in
\* other; current_task, the provider state and the registry are shared.
Switch ==
    /\ pc \in {"idle", "running"}
    /\ pc = "running" \/ other.pc = "running"
    /\ other.switches < MaxSwitches
    /\ other' = [pc |-> pc, steps_remaining |-> steps_remaining,
                 outcome |-> outcome, last_step |-> last_step,
                 switches |-> other.switches + 1]
    /\ pc' = other.pc
    /\ steps_remaining' = other.steps_remaining
    /\ outcome' = other.outcome
    /\ last_step' = other.last_step
    /\ UNCHANGED <<current_provider, gemini_model, ollama_model, api_keys, tools,
                   task_id, turn_history, console_out, reply_raw, parsed_call>>

Next ==
    \/ Initialize
    \/ ExecuteTask
    \/ StepQuotaExceeded
    \/ StepProviderError
    \/ StepFreeText
    \/ StepFinish
    \/ StepMoreSteps
    \/ StepTool
    \/ StepDispatchRaises
    \/ Quit

Spec == Init /\ [][Next]_vars

\* KeyboardInterrupt is a BaseException: neither except Exception of
\* _execute_turns nor that of execute_task catches it, so it passes through
\* both, without a reset, to except KeyboardInterrupt in main(), which leaves
\* the prompt loop. What main() does on it, from wherever it was raised:
Interrupted ==
    /\ pc' = "exited"
    /\ outcome' = "Interrupted"
    /\ console_out' = <<"Interrumpido! Saliendo...">>
    /\ UNCHANGED <<other, reply_raw, parsed_call, current_provider, gemini_model, ollama_model, api_keys,
                   tools, task_id, steps_remaining>>

\* the user interrupts at the prompt
InterruptAtPrompt ==
    /\ pc = "idle"
    /\ Interrupted
    /\ UNCHANGED <<turn_history, last_step>>

\* the user interrupts a task between two iterations or during the query
InterruptBetweenSteps ==
    /\ pc = "running"
    /\ Interrupted
    /\ UNCHANGED <<turn_history, last_step>>

\* the user interrupts while tool_func runs (line 624)
InterruptInTool ==
    /\ pc = "running"
    /\ \E q \in {ThisQuery} :
         /\ Answerable(q)
         /\ \E response \in Answers(q) :
              \E call \in {Interpreted[response]} :
                /\ call.found
                /\ Has(tools, call.tool_name)
                /\ WithinBounds(call.tool_name)
                /\ last_step' = StepRecord(q, "interrupted", FALSE,
                                           call.tool_name, None, <<>>)
    /\ Interrupted
    /\ UNCHANGED turn_history

\* the user interrupts _update_history_with_tool_result between its two
\* appends (lines 869-876)
InterruptInHistoryUpdate ==
    /\ pc = "running"
    /\ \E q \in {ThisQuery} :
         /\ Answerable(q)
         /\ \E response \in Answers(q), env \in ToolEnvs :
              \E call \in {Interpreted[response]} :
                /\ call.found
                /\ ~LookupRaises(call.name_t)
                /\ WithinBounds(call.tool_name)
                /\ \E result \in {execute_tool(tools, call.tool_name,
                                                call.parameters, env)} :
                     \E entries \in {UpdateHistoryWithToolResult(<<>>,
                                            call.tool_name, result)} :
                       /\ last_step' = StepRecord(q, "interrupted", FALSE,
                                call.tool_name, result, SubSeq(entries, 1, 1))
                       /\ turn_history' = turn_history \o SubSeq(entries, 1, 1)
    /\ Interrupted

\* the engine under a user who may press Ctrl-C
InterruptNext ==
    \/ Next
    \/ InterruptAtPrompt
    \/ InterruptBetweenSteps
    \/ InterruptInTool
    \/ InterruptInHistoryUpdate
InterruptSpec == Init /\ [][InterruptNext]_vars

\* console.print renders console markup in the strings it is given. A text is
\* a sequence of tokens; [name] opens a style, [/name] closes the last open
\* style of that name and raises MarkupError when there is none.
TagNames == {"red", "b", "INST"}
OpenTag(name) == "[" \o name \o "]"
CloseTag(name) == "[/" \o name \o "]"
IsOpenTag(tok) == \E name \in TagNames : tok = OpenTag(name)
IsCloseTag(tok) == \E name \in TagNames : tok = CloseTag(name)
\* the stack of open styles without the last one opened by tag
PopStyle(stack, tag) ==
    LET i == CHOOSE k \in 1..Len(stack) :
                /\ stack[k] = tag
                /\ \A m \in (k+1)..Len(stack) : stack[m] # tag
    IN  SubSeq(stack, 1, i - 1) \o SubSeq(stack, i + 1, Len(stack))

RECURSIVE Render(_, _)
\* rendering toks under the open styles of stack: ok, or the tag that raised
Render(toks, stack) ==
    IF toks = <<>> THEN [ok |-> TRUE, tag |-> None]
    ELSE IF IsOpenTag(toks[1]) THEN Render(Tail(toks), Append(stack, toks[1]))
    ELSE IF IsCloseTag(toks[1])
    THEN LET open == OpenTag(CHOOSE name \in TagNames : toks[1] = CloseTag(name))
         IN  IF InSeq(open, stack)
             THEN Render(Tail(toks), PopStyle(stack, open))
             ELSE [ok |-> FALSE, tag |-> toks[1]]
    ELSE Render(Tail(toks), stack)

\* str(e) of the MarkupError for tag (without the position it gives)
MarkupErrorText(tag) == <<"closing tag '", tag, "' doesn't match any open tag">>
\* the strings the four handlers print for an exception whose text is msg
ErrorEnTurno(msg) == <<"[red]", "Error en turno: ">> \o msg \o <<"[/red]">>
ErrorTarea(msg) == <<"[red]", "Error: ">> \o msg \o <<"[/red]">>
ErrorCritico(msg) == <<"[red]", "Error critico: ">> \o msg \o <<"[/red]">>

\* replies in prose that carry console markup: balanced, and a closing tag
\* alone such as a chat template leaves behind
MarkupTexts ==
    { <<"[b]", "Listo", "[/b]">>,
      <<"Hecho.", WS, "[/INST]">> }

\* console.print raises on its first, ..., k-th use in a row when text is
\* printed and each handler prints the text of the exception it caught
RaisesAt(text) ==
    LET r1 == Render(text, <<>>)
        r2 == Render(ErrorEnTurno(MarkupErrorText(r1.tag)), <<>>)
        r3 == Render(ErrorTarea(MarkupErrorText(r2.tag)), <<>>)
        r4 == Render(ErrorTarea(MarkupErrorText(r3.tag)), <<>>)
        r5 == Render(ErrorCritico(MarkupErrorText(r4.tag)), <<>>)
    IN  IF r1.ok THEN 0 ELSE IF r2.ok THEN 1 ELSE IF r3.ok THEN 2
        ELSE IF r4.ok THEN 3 ELSE IF r5.ok THEN 4 ELSE 5

\* the reply is prose with console markup in it: Panel(response_text) is
\* printed at line 798, and an exception of console.print goes from handler
\* to handler (lines 811, 737, 932, 936) while printing its text raises anew
StepFreeTextMarkup ==
    /\ pc = "running"
    /\ \E q \in {ThisQuery} :
         /\ Answerable(q)
         /\ \E text \in MarkupTexts :
              \E k \in {RaisesAt(text)} :
                /\ ~ParseModelResponse(TextReply(text)).found
                /\ last_step' = StepRecord(q, IF k = 0 THEN "ok" ELSE "print_raised",
                                           FALSE, None, None, <<>>)
                /\ console_out' =
                      IF k = 0 THEN <<PasoPanel(steps_remaining), Join(text, "")>>
                      ELSE IF k = 1
                      THEN <<PasoPanel(steps_remaining), "Error en turno", LimitPanel>>
                      ELSE IF k = 2 THEN <<PasoPanel(steps_remaining), "Error">>
                      ELSE IF k = 3 THEN <<PasoPanel(steps_remaining), "Error">>
                      ELSE IF k = 4 THEN <<PasoPanel(steps_remaining), "Error critico">>
                      ELSE <<PasoPanel(steps_remaining), "Traceback">>
                \* reset is reached on return (line 799) and after break (line 818)
                /\ task_id' = IF k <= 1 THEN TaskReset.task_id ELSE task_id
                /\ turn_history' = IF k <= 1 THEN TaskReset.turn_history
                                   ELSE turn_history
                /\ outcome' = IF k = 0 THEN "Finished"
                              ELSE IF k = 1 THEN "Aborted"
                              ELSE IF k <= 3 THEN "Raised"
                              ELSE "Crashed"
                \* up to main()'s inner handler the prompt loop goes on
                /\ pc' = IF k <= 3 THEN "idle" ELSE "exited"
    /\ UNCHANGED <<other, reply_raw, parsed_call, current_provider, gemini_model, ollama_model, api_keys,
                   tools, steps_remaining>>

\* the engine under a model that may put console markup in its prose
MarkupNext == Next \/ StepFreeTextMarkup
MarkupSpec == Init /\ [][MarkupNext]_vars

-----------------------------------------------------------------------------
(* The response interpreter on its own                                      *)

\* the ways a reply may write the parameters of a call, and the order of the
\* two keys
ParamForms == {"absent", "empty", "message", "nested", "string"}
KeyOrders == {"name_first", "parameters_first"}
ParamTokens(form) ==
    CASE form = "empty" -> <<"{", "}">>
      [] form = "message" -> <<"{", StrTok("message"), ":", WS, StrTok("hecho"), "}">>
      [] form = "nested" ->
            <<"{", StrTok("message"), ":", WS, StrTok("hecho"), ",", WS,
              StrTok("bogus"), ":", WS, "{", StrTok("x"), ":", "7", "}", "}">>
      [] OTHER -> <<StrTok("x")>>
\* a JSON tool-call payload as tokens; padded adds white space around it
Payload(name, form, order, padded) ==
    LET n == <<StrTok("tool_name"), ":", WS, StrTok(name)>>
        ps == <<StrTok("parameters"), ":", WS>> \o ParamTokens(form)
        body == IF form = "absent" THEN n
                ELSE IF order = "name_first" THEN n \o <<",", WS>> \o ps
                ELSE ps \o <<",">> \o n
        obj == <<"{">> \o body \o <<"}">>
    IN  IF padded THEN <<WS>> \o obj \o <<WS, WS>> ELSE obj
\* the parameters such a payload stands for
ParamsOf(form) ==
    CASE form = "message" -> [message |-> JStr("hecho")]
      [] form = "nested" ->
            [message |-> JStr("hecho"), bogus |-> JDict([x |-> [t |-> "num", v |-> "7"]])]
      [] OTHER -> EmptyDict

\* a text wrapped in a fenced json block: after some prose, alone, and
\* followed by a second block
Wrappings(toks) ==
    { Fenced(toks),
      <<FENCE_OPEN>> \o toks \o <<FENCE_CLOSE>>,
      Fenced(toks) \o <<"y", WS, FENCE_OPEN, "{", "}", FENCE_CLOSE>> }

Payloads ==
    { Payload(n, f, o, w) : n \in CalledTools, f \in ParamForms,
                            o \in KeyOrders, w \in BOOLEAN }

\* texts that are no tool call: JSON that is cut short, has extra data or
\* lacks a colon; texts that do not start with a brace; JSON objects without
\* the key tool_name
MalformedTexts ==
    { <<"{", StrTok("tool_name"), ":">>,
      <<"{", StrTok("tool_name"), ":", StrTok("x"), "}", "}">>,
      <<"{", StrTok("tool_name"), StrTok("x"), "}">>,
      <<"{", StrTok("tool_name"), ":", StrTok("x"), ",", "}">> }
NoBraceTexts ==
    { <<>>, <<WS>>, <<"7">>, <<StrTok("tool_name")>>,
      <<"Hola,", WS, "aqui", WS, "esta", WS, "tu", WS, "respuesta.">>,
      <<"Claro:", WS>> \o JsonCall("finish_task") }
NoToolNameTexts ==
    { <<"{", "}">>,
      <<"{", StrTok("message"), ":", StrTok("hecho"), "}">>,
      <<"{", StrTok("parameters"), ":", "{", "}", "}">>,
      <<"{", StrTok("parameters"), ":", "{", StrTok("tool_name"), ":",
        StrTok("finish_task"), "}", "}">> }
NonCallTexts == MalformedTexts \cup NoBraceTexts \cup NoToolNameTexts

\* the texts the interpreter is tried on, bare and wrapped
InterpreterTexts ==
    LET bare == Payloads \cup NonCallTexts \cup {BadNameCall}
    IN  bare \cup UNION {Wrappings(t) : t \in bare}

\* a reply of the text path is interpreted
ParseTextReply ==
    /\ \E text \in InterpreterTexts :
         /\ reply_raw' = TextReply(text)
         /\ parsed_call' = ParseModelResponse(TextReply(text))
    /\ UNCHANGED <<pc, current_provider, gemini_model, ollama_model, api_keys,
                   tools, task_id, turn_history, steps_remaining, outcome,
                   console_out, last_step, other>>

\* a reply of the native function-calling path is interpreted
ParseNativeReply ==
    /\ \E name \in CalledTools, args \in NativeArgs :
         /\ reply_raw' = Native(name, args)
         /\ parsed_call' = ParseModelResponse(Native(name, args))
    /\ UNCHANGED <<pc, current_provider, gemini_model, ollama_model, api_keys,
                   tools, task_id, turn_history, steps_remaining, outcome,
                   console_out, last_step, other>>

InterpreterNext == ParseTextReply \/ ParseNativeReply
InterpreterSpec == Init /\ [][InterpreterNext]_vars

\* the engine with a second caller
TwoCallersNext == Next \/ Switch
TwoCallersSpec == Init /\ [][TwoCallersNext]_vars

-----------------------------------------------------------------------------
(* Properties of the turn loop                                              *)

\* this step is one iteration of the loop of _execute_turns
Stepped == last_step'.n = last_step.n + 1
\* the iteration ended in the quota error / another provider error
QuotaStep == Stepped /\ last_step'.result = "quota"
ErrorStep == Stepped /\ last_step'.result = "error"
\* the iteration dispatched finish_task / request_more_steps / another tool
FinishStep == Stepped /\ last_step'.dispatched /\ last_step'.tool_name = "finish_task"
MoreStepsStep ==
    Stepped /\ last_step'.dispatched /\ last_step'.tool_name = "request_more_steps"
OtherToolStep ==
    /\ Stepped
    /\ last_step'.dispatched
    /\ last_step'.tool_name \notin {"finish_task", "request_more_steps"}
\* the iteration got a reply that the interpreter took for free text
FreeTextStep == Stepped /\ last_step'.result = "ok" /\ ~last_step'.dispatched
\* the tools dispatched so far in the running task
Dispatched(history) == (Len(history) - 1) \div 2
Terminal == {"Finished", "StepLimitReached", "Aborted"}

\* C1: a quota error on step k leaves steps_remaining, the task and the turn
\* history as they were, switches the provider to the local one and keeps the
\* task running; the query that follows is made to the local provider with
\* the same step index.
C1_QuotaRetriesSameStep ==
    [][ /\ QuotaStep =>
            /\ steps_remaining' = steps_remaining
            /\ turn_history' = turn_history
            /\ task_id' = task_id
            /\ current_provider' = OLLAMA
            /\ pc' = "running"
            /\ LoopContinues(steps_remaining')
        /\ (last_step.result = "quota" /\ Stepped) =>
            /\ last_step'.provider = OLLAMA
            /\ last_step'.turn = last_step.turn
            /\ last_step'.result # "quota" ]_vars

\* C1 witness: a step other than the first was retried under the local
\* provider after the cloud provider had refused it
C1_Witness ==
    /\ gemini_model # None
    /\ last_step.provider = OLLAMA
    /\ last_step.n >= 2
    /\ last_step.turn >= 1

\* C2 (as claimed): a request_more_steps step leaves steps_remaining at
\* exactly s + STEP_INCREMENT, with the task still running.
C2_MoreStepsNotDecremented ==
    [][ MoreStepsStep =>
            /\ steps_remaining' = steps_remaining + STEP_INCREMENT
            /\ pc' = "running" ]_vars

C5_StepLimitAfterMaxSteps ==
    [][ (OtherToolStep /\ Uses(turn_history, {"request_more_steps"}) = 0) =>
            IF Dispatched(turn_history) + 1 = MAX_STEPS_PER_TASK
            THEN outcome' = "StepLimitReached" /\ pc' = "idle"
            ELSE /\ Dispatched(turn_history) + 1 < MAX_STEPS_PER_TASK
                 /\ pc' = "running"
                 /\ outcome' = "Running"
                 /\ Dispatched(turn_history') = Dispatched(turn_history) + 1 ]_vars

\* C5 witness: the step limit was reached by the tenth query of a task
C5_Witness ==
    /\ outcome = "StepLimitReached"
    /\ last_step.n = MAX_STEPS_PER_TASK
    /\ steps_remaining = 0

C10_TerminalStatesReset ==
    outcome \in Terminal => task_id = None /\ turn_history = <<>> /\ pc # "running"

\* C10 witness: a task that ran into the step limit has been reset
C10_Witness ==
    /\ outcome = "StepLimitReached"
    /\ pc = "idle"
    /\ task_id = None
    /\ turn_history = <<>>

-----------------------------------------------------------------------------
(* Status messages, dispatch errors, fallback                               *)

\* C11 (as claimed): when a task has ended, the step-limit message is on the
\* console exactly when the task ended as StepLimitReached, the success
\* message only when it ended as Finished, and the error message exactly when
\* it ended as Aborted.
C11_DistinctStatusMessages ==
    (pc = "idle" /\ outcome \in Terminal) =>
        /\ InSeq(LimitPanel, console_out) <=> outcome = "StepLimitReached"
        /\ InSeq("Tarea completada exitosamente", console_out) => outcome = "Finished"
        /\ InSeq("Error en turno", console_out) <=> outcome = "Aborted"

\* the reply of this iteration was interpreted as a tool invocation
InvocationStep == Stepped /\ last_step'.tool_name # None

\* C12 (as claimed): every parsed invocation is dispatched and gives a string
\* result: for a name that is not registered the string that lists the
\* registered names, for a body that raises an error string; the string is
\* appended to the history as the tool's output and the task is not aborted.
C12_DispatchNeverPropagates ==
    [][ InvocationStep =>
            /\ last_step'.dispatched
            /\ last_step'.tool_result # None
            /\ ~Has(tools, last_step'.tool_name) =>
                  last_step'.tool_result =
                      "Error: Herramienta '" \o last_step'.tool_name
                          \o "' no encontrada. Disponibles: " \o ListStr(Keys(tools))
            /\ last_step'.appended[2].parts = <<"Resultado: " \o last_step'.tool_result>>
            /\ outcome' # "Aborted" ]_vars

\* C13: once the active provider is the local one it stays the local one, in
\* the same task and in every later task; the only step that takes the
\* provider away from the cloud one is the quota fallback.
C13_FallbackOneWay ==
    [][ /\ current_provider = OLLAMA => current_provider' = OLLAMA
        /\ (current_provider = GEMINI /\ current_provider' # GEMINI) =>
              QuotaStep /\ current_provider' = OLLAMA ]_vars

\* C13 witness: after a fallback in an earlier task, a later task has made
\* its first query, and made it to the local provider
C13_Witness ==
    /\ gemini_model # None
    /\ current_provider = OLLAMA
    /\ last_step.n = 1
    /\ last_step.provider = OLLAMA

-----------------------------------------------------------------------------
(* Callers of execute_task                                                  *)

\* C14 (as claimed): at most one task is active on a TaskManager: a caller
\* that invokes execute_task while another caller's task is running does not
\* get to run its task before the other has ended, so two callers are never
\* both inside the turn loop and the history of a running task is not
\* replaced under it.
C14_OneActiveTask ==
    ~(pc = "running" /\ other.pc = "running")

\* C15 (as claimed): a KeyboardInterrupt during a task is observed between
\* two steps only, never inside a step, and leaves the task reset: the task
\* identifier unset and the turn history empty.
C15_InterruptLeavesCleanState ==
    outcome = "Interrupted" =>
        /\ last_step.result # "interrupted"
        /\ task_id = None
        /\ turn_history = <<>>

-----------------------------------------------------------------------------
(* Exceptions inside the turn loop                                          *)

\* an exception was raised inside this iteration: by the query, by the
\* registry lookup, or by console.print
ExceptionStep ==
    Stepped /\ last_step'.result \in {"error", "raised", "print_raised"}

\* C16 (as claimed): an exception raised inside the turn loop aborts the
\* current task and nothing else: the task is reset, execute_task returns,
\* and the prompt loop stands ready for the next task.
C16_ExceptionAbortsOnlyTask ==
    [][ ExceptionStep =>
            /\ outcome' = "Aborted"
            /\ task_id' = None
            /\ turn_history' = <<>>
            /\ pc' = "idle" ]_vars

-----------------------------------------------------------------------------
(* Properties of the response interpreter                                   *)

\* C17: for every JSON tool-call payload, the interpreter extracts from the
\* payload wrapped in a fenced json block the tool name and the parameters
\* the payload stands for, the same as from the payload without the fence.
C17_FencedSameAsUnfenced ==
    \A n \in CalledTools, f \in ParamForms, o \in KeyOrders, w \in BOOLEAN :
        \E p \in {Payload(n, f, o, w)} :
            reply_raw.text \in Wrappings(p) =>
                /\ parsed_call = ParseModelResponse(TextReply(p))
                /\ parsed_call.found
                /\ parsed_call.tool_name = n
                /\ parsed_call.parameters = ParamsOf(f)

\* C17 witness: a call with parameters, written parameters first and padded,
\* was extracted from a fenced block that a second block follows
C17_Witness ==
    /\ reply_raw.text =
         Fenced(Payload("finish_task", "message", "parameters_first", TRUE))
             \o <<"y", WS, FENCE_OPEN, "{", "}", FENCE_CLOSE>>
    /\ parsed_call.found
    /\ parsed_call.tool_name = "finish_task"
    /\ parsed_call.parameters = [message |-> JStr("hecho")]

\* C18: for every text that is malformed JSON, or does not start with a brace
\* after the fence is taken off and the white space trimmed, or is a JSON
\* object without the key tool_name, the interpreter returns no invocation
\* for a reply that carries this text and no structured call.
C18_NonCallsGiveNoInvocation ==
    \A t \in NonCallTexts :
        (reply_raw.candidates = <<>> /\ reply_raw.text \in {t} \cup Wrappings(t))
            => parsed_call = NoCall

\* C18 witness: a fenced object whose only tool_name lies inside parameters
\* was taken for no invocation
C18_Witness ==
    /\ reply_raw.text =
         Fenced(<<"{", StrTok("parameters"), ":", "{", StrTok("tool_name"), ":",
                  StrTok("finish_task"), "}", "}">>)
    /\ parsed_call = NoCall

-----------------------------------------------------------------------------
(* Credentials                                                              *)

\* C19 (as claimed): every query to the cloud provider uses the credential at
\* position i mod len(credentials), where i is the number of steps the task
\* has completed, also after a step that invoked request_more_steps.
C19_KeyFollowsStepIndex ==
    [][ (Stepped /\ last_step'.provider = GEMINI) =>
            last_step'.key =
                api_keys[(Dispatched(turn_history) % Len(api_keys)) + 1] ]_vars

\* C20 (as claimed): no query to the cloud provider is made with a
\* placeholder credential, wherever in the list it stands, and a list of
\* placeholders only leaves the cloud provider unconfigured.
C20_PlaceholderNeverUsed ==
    /\ last_step.provider = GEMINI => ~IsPlaceholder(last_step.key)
    /\ (pc # "created" /\ \A i \in 1..Len(api_keys) : IsPlaceholder(api_keys[i]))
          => (current_provider # GEMINI /\ gemini_model = None)

-----------------------------------------------------------------------------
(* The step counter                                                         *)

\* C21: steps_remaining is greater than 0 at every provider query, hence at
\* every tool dispatch, and a task starts with steps_remaining equal to
\* MAX_STEPS_PER_TASK whatever the counter of the task before was.
C21_CounterPositiveAndRestored ==
    [][ /\ Stepped => steps_remaining > 0
        /\ (pc = "idle" /\ pc' = "running") =>
              steps_remaining' = MAX_STEPS_PER_TASK ]_vars

\* C21 witness: a task has ended with its counter raised above the maximum by
\* request_more_steps; the next task starts from here
C21_Witness ==
    /\ pc = "idle"
    /\ outcome \in Terminal
    /\ steps_remaining > MAX_STEPS_PER_TASK

\* C22: a text that parses to a JSON object is a tool invocation exactly
\* when the object has the key tool_name; its parameters are the empty
\* mapping when the entry is missing or is not a mapping, and the mapping as
\* written otherwise.
C22_ToolNameDecidesParametersDefault ==
    reply_raw.candidates = <<>> =>
        /\ \A n \in CalledTools, f \in ParamForms, o \in KeyOrders, w \in BOOLEAN :
              reply_raw.text = Payload(n, f, o, w) =>
                  /\ parsed_call.found
                  /\ parsed_call.tool_name = n
                  /\ parsed_call.parameters = ParamsOf(f)
        /\ reply_raw.text = BadNameCall =>
              parsed_call.found /\ parsed_call.parameters = EmptyDict
        /\ reply_raw.text \in NoToolNameTexts => ~parsed_call.found

\* C22 witness: a call whose parameters entry is a string came back with
\* the empty mapping
C22_Witness ==
    /\ reply_raw.text = Payload("return_text", "string", "parameters_first", FALSE)
    /\ parsed_call.found
    /\ parsed_call.tool_name = "return_text"
    /\ parsed_call.parameters = EmptyDict


-----------------------------------------------------------------------------
(* The tool registry                                                        *)

\* C23: a registration under a name the registry already holds leaves the
\* entry as it was: once the tools are initialized, every static tool name
\* still maps to its static body, whatever the tools directory holds.
C23_StaticToolNotReplaced ==
    pc # "created" =>
        \A i \in 1..Len(StaticTools) :
            /\ Has(tools, StaticTools[i].name)
            /\ Get(tools, StaticTools[i].name) = StaticTools[i].body


-----------------------------------------------------------------------------
(* Provider selection at startup                                            *)

\* C24: initialization makes the cloud provider active exactly when its
\* setup gave a model, otherwise the local provider exactly when its setup
\* gave one, and otherwise ends the program; the engine is never idle or
\* running a task, and no step ever queries, with the provider UNKNOWN.
C24_ProvidersInStrictOrder ==
    [][ /\ pc = "created" =>
              /\ current_provider' = GEMINI <=> gemini_model' # None
              /\ current_provider' = OLLAMA <=>
                    (gemini_model' = None /\ ollama_model' # None)
              /\ current_provider' = UNKNOWN <=> pc' = "exited"
              /\ current_provider' # UNKNOWN <=> pc' = "idle"
        /\ pc' \in {"idle", "running"} => current_provider' # UNKNOWN
        /\ Stepped => last_step'.provider \in {GEMINI, OLLAMA} ]_vars

\* C24 witness: the cloud setup failed and the local provider was chosen at
\* startup, and a task has made a step with it
C24_Witness ==
    /\ gemini_model = None
    /\ ollama_model = "llama3"
    /\ current_provider = OLLAMA
    /\ last_step.n >= 1
    /\ last_step.provider = OLLAMA


\* C25: no step of a running task writes to the registry: from the start of
\* execute_task to its end every step, whatever the reply, leaves the
\* registered names and their bodies as they were.
C25_RegistryFrozenDuringTask ==
    [][ (pc = "running" \/ pc' = "running" \/ Stepped) => tools' = tools ]_vars

\* C25 witness: a task has dispatched a call to a name that is not
\* registered, and the name is still not registered
C25_Witness ==
    /\ last_step.dispatched
    /\ last_step.tool_name \in CalledTools
    /\ ~Has(tools, last_step.tool_name)
    /\ Has(tools, "finish_task")


\* C26: loading the tools directory never ends startup: whatever the
\* directory holds, initialization leaves every static tool registered and
\* nothing of a module that failed to load, and the program goes on to the
\* prompt unless no provider could be set up, which it reports.
C26_DynamicLoadNeverFatal ==
    [][ pc = "created" =>
           /\ \A i \in 1..Len(StaticTools) : Has(tools', StaticTools[i].name)
           /\ ~Has(tools', "never_loaded")
           /\ ~Has(tools', "script_tool")
           /\ \/ pc' = "idle"
              \/ /\ pc' = "exited"
                 /\ gemini_model' = None
                 /\ ollama_model' = None
                 /\ console_out' = <<"Error: No se pudo inicializar el sistema">> ]_vars


-----------------------------------------------------------------------------
(* The local provider after a quota fallback                                *)

\* C27: every query made to the local provider, the retry after a quota
\* fallback included, passes the local provider's own selected model: a set
\* value, and not the cloud provider's model identifier.
C27_LocalProviderGetsOwnModel ==
    (last_step.n >= 1 /\ last_step.provider = OLLAMA) =>
        /\ last_step.model_name # None
        /\ last_step.model_name = ollama_model
        /\ last_step.model_name # gemini_model


\* C28: the quota fallback happens at most once in the life of the engine:
\* a quota error comes only from a query made while the cloud provider is
\* active and makes the local one active, and while the local provider is
\* active it stays active and no query ends in the quota error; so the step
\* that follows a quota retry is never a quota retry again.
C28_QuotaFallbackAtMostOnce ==
    [][ /\ QuotaStep =>
              /\ current_provider = GEMINI
              /\ last_step'.provider = GEMINI
              /\ current_provider' = OLLAMA
        /\ current_provider = OLLAMA =>
              /\ current_provider' = OLLAMA
              /\ ~QuotaStep
        /\ last_step.result = "quota" => ~QuotaStep ]_vars

\* C28 witness: after the fallback and the retry a later task has queried
\* again, and the query went to the local provider
C28_Witness ==
    /\ gemini_model # None
    /\ current_provider = OLLAMA
    /\ last_step.n >= 3
    /\ last_step.provider = OLLAMA
    /\ last_step.result # "quota"


-----------------------------------------------------------------------------
(* Termination                                                              *)

\* one iteration of the while loop of _execute_turns, whatever its outcome
TurnStep ==
    \/ StepQuotaExceeded
    \/ StepProviderError
    \/ StepFreeText
    \/ StepFinish
    \/ StepMoreSteps
    \/ StepTool
    \/ StepDispatchRaises

\* _execute_turns is a synchronous loop on the thread that called
\* execute_task: while the task is running and the query and the tool call of
\* an iteration return, the next iteration is taken. Nothing makes the user
\* type another task or quit, so there is no fairness on the other actions.
FairSpec == Init /\ [][Next]_vars /\ WF_vars(TurnStep)

-----------------------------------------------------------------------------
(* The shape of the turn history                                            *)

\* C30: whenever a running task is about to query the provider, the history
\* has 1 + 2k entries, k the tools dispatched so far in the task (every
\* iteration made so far but a quota retry); the first entry is the user's,
\* holding the system prompt and the task text, and the roles alternate
\* user, model, user, ..., so the last entry is the user's.
C30_HistoryShape ==
    pc = "running" =>
        /\ Len(turn_history) =
              1 + 2 * (last_step.n - IF last_step.result = "quota" THEN 1 ELSE 0)
        /\ turn_history[1].role = "user"
        /\ \E p \in Prompts :
              turn_history[1].parts =
                  <<SystemPrompt(Keys(tools), "No hay recuerdos guardados"),
                    "Tarea: " \o p>>
        /\ \A i \in 1..Len(turn_history) :
              turn_history[i].role = IF i % 2 = 1 THEN "user" ELSE "model"
        /\ turn_history[Len(turn_history)].role = "user"

\* C30 witness: two tools were dispatched, the third query hit the quota
\* and the task is about to query again with five entries in the history
C30_Witness ==
    /\ pc = "running"
    /\ last_step.n = 3
    /\ last_step.result = "quota"
    /\ Len(turn_history) = 5


-----------------------------------------------------------------------------
(* The credential list at a cloud query                                     *)

\* C31: whenever the cloud provider is active or has been queried the list
\* of credentials is not empty, and the credential of the query is the entry
\* at turn mod len(credentials), a position of the list, for every turn
\* index the loop reaches, the negative ones after request_more_steps
\* included.
C31_KeyIndexInBounds ==
    /\ current_provider = GEMINI => Len(api_keys) >= 1
    /\ (last_step.n >= 1 /\ last_step.provider = GEMINI) =>
          /\ Len(api_keys) >= 1
          /\ (last_step.turn % Len(api_keys)) \in 0..(Len(api_keys) - 1)
          /\ last_step.key = api_keys[(last_step.turn % Len(api_keys)) + 1]
          /\ \E i \in 1..Len(api_keys) : last_step.key = api_keys[i]

\* C31 witness: after request_more_steps the cloud provider was queried with
\* a negative turn index and a credential of a list of three
C31_Witness ==
    /\ last_step.provider = GEMINI
    /\ last_step.turn < 0
    /\ Len(api_keys) = 3
    /\ last_step.key \in {"key-1", "key-2", "key-3"}

=============================================================================
